---- MODULE Spec2Model ----
(***************************************************************************)
(* Model of the learno tutoring backend: the LangGraph learning workflow   *)
(* (app/services/learning_workflow.py), the AITeacherService that drives   *)
(* it per thread (app/services/ai_teacher.py) and the WebSocket handlers   *)
(* that stream a turn (app/api/routes/websocket.py).                       *)
(*                                                                         *)
(* One thread id is modelled.  The graph's state is the thread's latest    *)
(* checkpoint: LangGraph commits a checkpoint after the input is written   *)
(* and after every node (superstep); a node that calls interrupt() with no *)
(* resume value commits nothing and is re-executed from its first line on  *)
(* resume, when interrupt() returns the resume value.                      *)
(*                                                                         *)
(* Text is a sequence of tokens (words, " " for whitespace, "?"), so that  *)
(* str.strip, str.lower and the substring tests of the code are computed   *)
(* and not assumed.  Python's None is <<>> and a present value v is <<v>>. *)
(***************************************************************************)
EXTENDS Integers, Sequences, FiniteSets, TLC

VARIABLES
    sessions,      \* AITeacherService.sessions: thread ids marked as existing
    ckpt,          \* MemorySaver: the thread's latest checkpoint
    turn,          \* the turn being executed (graph.invoke / graph.astream)
    result,        \* what the last finished turn returned to its caller
    events,        \* WebSocket events sent during the current/last streamed turn
    ws,            \* the WebSocket connection: "closed" or "open"
    nav,           \* the last navigate_slide call and what it returned
    goal_skipped,  \* history: the goal prompt was answered with a skip keyword
    failures,      \* history: the attempts at a node that have raised so far
    prompt_invocations,
                   \* history: the times self.model.invoke has generated the
                   \* prompt of the suspension that is pending or was resumed last
    cleared        \* history: clear_session was called and no turn began since

vars ==
    <<sessions, ckpt, turn, result, events, ws, nav, goal_skipped, failures,
      prompt_invocations, cleared>>

----------------------------------------------------------------------------
(* Bounds of the model *)

\* Turns are accepted while the message history is shorter than this.
MaxMessages == 10

\* Answers to an outstanding assessment question are accepted while
\* assessment_attempts is below this.
MaxAttempts == 3

\* The curriculum is cut to its first NumTopics topics.
NumTopics == 2

\* The promotion thresholds are checked for assessments_passed up to this.
MaxPassed == 7

\* The attempts at a node that may raise in one behaviour.
MaxFailures == 3

\* A turn runs nodes while it has run fewer than this many; no turn of the
\* specifications gets that far.
MaxSteps == 6

\* The longest message history at which the specifications of refused
\* requests and of connections still accept a message.
MaxRequestMessages == 5

----------------------------------------------------------------------------
(* Optional values and text *)

None == <<>>
Some(v) == <<v>>

\* bool(x) for x: str | None
Truthy(opt) == opt # None /\ Len(opt[1]) > 0

RECURSIVE lstrip(_)
lstrip(text) ==
    IF text # <<>> /\ Head(text) = " " THEN lstrip(Tail(text)) ELSE text

RECURSIVE rstrip(_)
rstrip(text) ==
    IF text # <<>> /\ text[Len(text)] = " "
    THEN rstrip(SubSeq(text, 1, Len(text) - 1))
    ELSE text

\* str.strip()
strip(text) == rstrip(lstrip(text))

\* `not text or not text.strip()`: the test of the service for an empty
\* message or thread id.
blank(text) == Len(text) = 0 \/ Len(strip(text)) = 0

\* str.lower() on one token
lower_token(tok) ==
    CASE tok = "Hi" -> "hi"
      [] tok = "Why" -> "why"
      [] tok = "Alice" -> "alice"
      [] tok = "Skip" -> "skip"
      [] tok = "Lets" -> "lets"
      [] tok = "Start" -> "start"
      [] tok = "JUDGMENT: correct" -> "judgment: correct"
      [] tok = "JUDGMENT: partial" -> "judgment: partial"
      [] tok = "JUDGMENT: incorrect" -> "judgment: incorrect"
      [] tok = "FEEDBACK" -> "feedback"
      [] OTHER -> tok

\* str.lower()
lower(text) == [i \in 1..Len(text) |-> lower_token(text[i])]

\* `needle in text` for a needle that is one token
contains(text, needle) == \E i \in 1..Len(text) : text[i] = needle

----------------------------------------------------------------------------
(* Curriculum and the initial LearningState *)

CELL_BIOLOGY_CURRICULUM ==
    << "Introduction to Cells", "Cell Membrane", "Cytoplasm", "Nucleus",
       "Mitochondria", "Endoplasmic Reticulum", "Golgi Apparatus", "Ribosomes",
       "Lysosomes", "Vacuoles", "Chloroplasts (Plant Cells)",
       "Cell Wall (Plant Cells)", "Cytoskeleton",
       "Cell Types: Prokaryotic vs Eukaryotic", "Plant vs Animal Cells" >>

\* self.curriculum
curriculum == SubSeq(CELL_BIOLOGY_CURRICULUM, 1, NumTopics)

thread_id == "t1"

HumanMessage(content) == [type |-> "human", content |-> content]
AIMessage(content) == [type |-> "ai", content |-> content]

\* The add_messages reducer: messages with new ids are appended.
add_messages(left, right) == left \o right

initialize_state ==
    [ messages |-> <<>>,
      current_stage |-> "introduction",
      topics_covered |-> <<>>,
      current_topic |-> None,
      topics_remaining |-> curriculum,
      understanding_level |-> "beginner",
      questions_asked |-> 0,
      assessments_passed |-> 0,
      current_assessment_question |-> None,
      assessment_attempts |-> 0,
      slides |-> <<>>,
      current_slide_index |-> 0,
      user_name |-> None,
      learning_goal |-> None ]

\* self.model.invoke at each call site: the generated text is opaque, one
\* token naming the call stands for it.
model_invoke(call) == <<call>>

\* What the evaluator may answer (the format the prompt asks for, in either
\* letter case).
EvaluationTexts ==
    { <<"JUDGMENT: correct", "FEEDBACK">>,
      <<"judgment: correct", "feedback">>,
      <<"JUDGMENT: partial", "FEEDBACK">>,
      <<"JUDGMENT: incorrect", "FEEDBACK">> }

----------------------------------------------------------------------------
(* Routers *)

\* Mutant: the test for an outstanding assessment question is left out.
entry_router_without_answer_test(state) ==
    IF ~Truthy(state.user_name) THEN "introduction"
    ELSE IF state.learning_goal = None /\ state.current_stage = "introduction"
    THEN "introduction"
    ELSE CASE state.current_stage = "introduction" -> "introduction"
           [] state.current_stage = "teaching" -> "teaching"
           [] state.current_stage = "assessment" -> "assessment"
           [] state.current_stage = "evaluation_complete" -> "teaching"
           [] state.current_stage = "needs_hint" -> "evaluate_answer"
           [] state.current_stage = "needs_retry" -> "evaluate_answer"
           [] state.current_stage = "needs_review" -> "teaching"
           [] state.current_stage = "question_answering" -> "question_answering"
           [] OTHER -> "teaching"

entry_router(state) ==
    IF ~Truthy(state.user_name) THEN "introduction"
    ELSE IF state.learning_goal = None /\ state.current_stage = "introduction"
    THEN "introduction"
    ELSE IF state.current_stage = "assessment"
            /\ Truthy(state.current_assessment_question)
    THEN "evaluate_answer"
    ELSE CASE state.current_stage = "introduction" -> "introduction"
           [] state.current_stage = "teaching" -> "teaching"
           [] state.current_stage = "assessment" -> "assessment"
           [] state.current_stage = "evaluation_complete" -> "teaching"
           [] state.current_stage = "needs_hint" -> "evaluate_answer"
           [] state.current_stage = "needs_retry" -> "evaluate_answer"
           [] state.current_stage = "needs_review" -> "teaching"
           [] state.current_stage = "question_answering" -> "question_answering"
           [] OTHER -> "teaching"

\* The question test of post_node_router.
question_detected(state) ==
    /\ state.current_stage \notin
           {"assessment", "needs_retry", "needs_hint", "needs_review"}
    /\ Len(state.messages) >= 2
    /\ state.messages[Len(state.messages)].type = "human"
    /\ contains(state.messages[Len(state.messages)].content, "?")

\* Mutant: after the assessment node the router runs the assessment node
\* again instead of ending the turn.
post_node_router_repeating_assessment(state) ==
    IF state.current_stage \in {"teaching", "assessment"} THEN "assessment"
    ELSE IF state.current_stage \in {"needs_hint", "needs_retry"}
    THEN "evaluate_answer"
    ELSE IF state.current_stage = "needs_review" THEN "teaching"
    ELSE "end"

\* The router reads a copy of the state: what it assigns to state[...]
\* (current_topic, topics_remaining, current_stage) is not written back, so
\* only the returned node name has an effect.
post_node_router(state) ==
    IF question_detected(state) THEN "question_answering"
    ELSE CASE state.current_stage = "introduction" ->
                IF Truthy(state.user_name) /\ state.learning_goal # None
                THEN "teaching" ELSE "end"
           [] state.current_stage = "teaching" -> "assessment"
           [] state.current_stage = "assessment" -> "end"
           [] state.current_stage = "evaluation_complete" ->
                IF state.topics_remaining # <<>> THEN "teaching" ELSE "end"
           [] state.current_stage = "needs_hint" -> "evaluate_answer"
           [] state.current_stage = "needs_retry" -> "evaluate_answer"
           [] state.current_stage = "needs_review" -> "teaching"
           [] state.current_stage = "question_answering" -> "teaching"
           [] OTHER -> "end"

----------------------------------------------------------------------------
(* Nodes.  A node returns [interrupt, state]: interrupt is "none" and state *)
(* the returned state, or interrupt is the value passed to interrupt() and  *)
(* nothing is written.  `resume` is None, or Some(answer) when the node is  *)
(* re-executed by Command(resume=answer).                                   *)

returned(state) == [interrupt |-> "none", state |-> state]
interrupted(value, state) == [interrupt |-> value, state |-> state]

NAME_PROMPT == "Please provide your name"
GOAL_PROMPT == "Please share your learning goal (or type 'skip')"

\* Mutant: the greeting is taken as already given.
has_initial_greeting_assumed(state) == TRUE

has_initial_greeting(state) == Len(state.slides) > 0

user_message_count(state) ==
    Cardinality({i \in 1..Len(state.messages) : state.messages[i].type = "human"})

\* _generate_slide and the literal welcome slide: the fields the model keeps.
slide_data(slide_number, title) ==
    [slide_number |-> slide_number, title |-> title]

\* Mutant: the greeting is generated but the welcome slide is not appended.
introduction_greeting_without_slide(state) ==
    [state EXCEPT
        !.messages = Append(@, AIMessage(model_invoke("greeting"))),
        !.current_slide_index = 0,
        !.current_stage = "introduction"]

\* STEP 1: greeting and welcome slide, no interrupt.
introduction_greeting(state) ==
    [state EXCEPT
        !.messages = Append(@, AIMessage(model_invoke("greeting"))),
        !.slides = Append(@, slide_data(0, "Meet Meemo!")),
        !.current_slide_index = 0,
        !.current_stage = "introduction"]

\* The value stored for the answer to the name prompt.
received_user_name(user_name) ==
    IF Len(user_name) > 0 THEN strip(user_name) ELSE <<"Student">>

\* STEP 2 after interrupt() has returned.
introduction_name(state, user_name) ==
    [state EXCEPT
        !.messages = Append(@, AIMessage(model_invoke("ask_name"))),
        !.user_name = Some(received_user_name(user_name))]

skip_keywords == { <<"skip">>, <<"let's", " ", "start">>, <<"lets", " ", "start">>, <<>> }

\* The value stored for the answer to the goal prompt.
received_learning_goal(learning_goal) ==
    IF Len(learning_goal) > 0 /\ lower(strip(learning_goal)) \notin skip_keywords
    THEN Some(strip(learning_goal))
    ELSE None

\* STEP 3 after interrupt() has returned.
introduction_goal(state, learning_goal) ==
    [state EXCEPT
        !.messages = Append(@, AIMessage(model_invoke("ask_goal"))),
        !.learning_goal = received_learning_goal(learning_goal)]

\* Mutant: the first topic is made current and is left in topics_remaining.
introduction_welcome_keeping_head(state) ==
    [state EXCEPT
        !.messages = Append(@, AIMessage(model_invoke("welcome"))),
        !.current_stage = "teaching",
        !.current_topic =
            IF curriculum # <<>> THEN Some(curriculum[1]) ELSE Some("Introduction"),
        !.topics_remaining = curriculum,
        !.topics_covered = <<>>,
        !.slides = Append(@, slide_data(1, "Welcome")),
        !.current_slide_index = 1]

\* STEP 4: personalised welcome, slide 1, hand-over to teaching.
introduction_welcome(state) ==
    [state EXCEPT
        !.messages = Append(@, AIMessage(model_invoke("welcome"))),
        !.current_stage = "teaching",
        !.current_topic =
            IF curriculum # <<>> THEN Some(curriculum[1]) ELSE Some("Introduction"),
        !.topics_remaining =
            IF Len(curriculum) > 1 THEN Tail(curriculum) ELSE <<>>,
        !.topics_covered = <<>>,
        !.slides = Append(@, slide_data(1, "Welcome")),
        !.current_slide_index = 1]

\* Mutant: the welcome is given, and the stage moves on to teaching, as
\* soon as there is a name, whether or not a learning goal has been stored.
introduction_node_welcoming_without_goal(state, resume) ==
    LET has_name == Truthy(state.user_name)
        has_goal == state.learning_goal # None
        step4(s) == IF has_name THEN introduction_welcome(s) ELSE s
    IN  IF ~has_initial_greeting(state)
        THEN returned(introduction_greeting(state))
        ELSE IF ~has_name /\ user_message_count(state) >= 1
        THEN IF resume = None
             THEN interrupted(NAME_PROMPT, state)
             ELSE returned(introduction_name(state, resume[1]))
        ELSE IF has_name /\ ~has_goal
        THEN IF resume = None
             THEN interrupted(GOAL_PROMPT, state)
             ELSE returned(step4(introduction_goal(state, resume[1])))
        ELSE returned(step4(state))

introduction_node(state, resume) ==
    LET has_name == Truthy(state.user_name)
        has_goal == state.learning_goal # None
        step4(s) == IF has_name /\ s.learning_goal # None
                    THEN introduction_welcome(s) ELSE s
    IN  IF ~has_initial_greeting(state)
        THEN returned(introduction_greeting(state))
        ELSE IF ~has_name /\ user_message_count(state) >= 1
        THEN IF resume = None
             THEN interrupted(NAME_PROMPT, state)
             ELSE returned(introduction_name(state, resume[1]))
        ELSE IF has_name /\ ~has_goal
        THEN IF resume = None
             THEN interrupted(GOAL_PROMPT, state)
             ELSE returned(step4(introduction_goal(state, resume[1])))
        ELSE returned(step4(state))

\* The calls of self.model.invoke that generate a prompt (name_response,
\* goal_response) in one execution of introduction_node: the call comes
\* before interrupt(), so it is made when the node suspends and again when
\* Command(resume=...) executes the node from its first line.
prompts_generated(state) ==
    LET has_name == Truthy(state.user_name)
        has_goal == state.learning_goal # None
    IN  IF ~has_initial_greeting(state) THEN 0
        ELSE IF ~has_name /\ user_message_count(state) >= 1 THEN 1
        ELSE IF has_name /\ ~has_goal THEN 1
        ELSE 0

\* Mutant: slides are numbered from 1.
next_slide_number_one_based(slides) == Len(slides) + 1

\* The number teaching_node gives the slide it appends.
next_slide_number(slides) == Len(slides)

\* Mutant: the topic is marked as covered without looking at topics_covered.
teaching_node_always_marking(state) ==
    LET current_topic == state.current_topic
        slide_number == next_slide_number(state.slides)
        title == IF current_topic = None THEN "Learning Slide" ELSE current_topic[1]
    IN  [state EXCEPT
            !.messages = Append(@, AIMessage(model_invoke("lesson"))),
            !.slides = Append(@, slide_data(slide_number, title)),
            !.current_slide_index = slide_number,
            !.topics_covered =
                IF current_topic # None THEN Append(@, current_topic[1]) ELSE @,
            !.current_stage = "assessment"]

teaching_node(state) ==
    LET current_topic == state.current_topic
        slide_number == next_slide_number(state.slides)
        title == IF current_topic = None THEN "Learning Slide" ELSE current_topic[1]
    IN  [state EXCEPT
            !.messages = Append(@, AIMessage(model_invoke("lesson"))),
            !.slides = Append(@, slide_data(slide_number, title)),
            !.current_slide_index = slide_number,
            !.topics_covered =
                IF current_topic # None /\ current_topic[1] # ""
                   /\ ~(\E i \in 1..Len(@) : @[i] = current_topic[1])
                THEN Append(@, current_topic[1]) ELSE @,
            !.current_stage = "assessment"]

\* Mutant: the stored question is not looked at, a question is always generated.
assessment_node_regenerating(state) ==
    [state EXCEPT
        !.current_assessment_question = Some(model_invoke("question")),
        !.assessment_attempts = 0,
        !.messages = Append(@, AIMessage(model_invoke("question"))),
        !.current_stage = "assessment"]

assessment_node(state) ==
    IF Truthy(state.current_assessment_question)
    THEN state
    ELSE [state EXCEPT
            !.current_assessment_question = Some(model_invoke("question")),
            !.assessment_attempts = 0,
            !.messages = Append(@, AIMessage(model_invoke("question"))),
            !.current_stage = "assessment"]

\* The judgment read from the evaluator's text.
judgment_of(evaluation_text) ==
    IF contains(lower(evaluation_text), "JUDGMENT: correct") THEN "correct"
    ELSE IF contains(lower(evaluation_text), "JUDGMENT: partial") THEN "partial"
    ELSE "incorrect"

\* Mutant: the promotions come one passed assessment early.
update_on_judgment_early(state, judgment) ==
    LET attempts == state.assessment_attempts
        assessments_passed == state.assessments_passed + 1
    IN  IF judgment = "correct"
        THEN [state EXCEPT
                !.assessments_passed = assessments_passed,
                !.current_assessment_question = None,
                !.assessment_attempts = 0,
                !.understanding_level =
                    IF assessments_passed >= 2 /\ @ = "beginner"
                    THEN "intermediate"
                    ELSE IF assessments_passed >= 5 /\ @ = "intermediate"
                    THEN "advanced" ELSE @,
                !.current_stage = "evaluation_complete"]
        ELSE IF judgment = "partial" /\ attempts < 2
        THEN [state EXCEPT !.current_stage = "needs_hint"]
        ELSE IF attempts >= 2 \/ judgment = "incorrect"
        THEN [state EXCEPT !.current_stage = "needs_review"]
        ELSE [state EXCEPT !.current_stage = "needs_retry"]

\* "Update state based on judgment": `state` holds the attempt already
\* counted.
update_on_judgment(state, judgment) ==
    LET attempts == state.assessment_attempts
        assessments_passed == state.assessments_passed + 1
    IN  IF judgment = "correct"
        THEN [state EXCEPT
                !.assessments_passed = assessments_passed,
                !.current_assessment_question = None,
                !.assessment_attempts = 0,
                !.understanding_level =
                    IF assessments_passed >= 3 /\ @ = "beginner"
                    THEN "intermediate"
                    ELSE IF assessments_passed >= 6 /\ @ = "intermediate"
                    THEN "advanced" ELSE @,
                !.current_stage = "evaluation_complete"]
        ELSE IF judgment = "partial" /\ attempts < 2
        THEN [state EXCEPT !.current_stage = "needs_hint"]
        ELSE IF attempts >= 2 \/ judgment = "incorrect"
        THEN [state EXCEPT !.current_stage = "needs_review"]
        ELSE [state EXCEPT !.current_stage = "needs_retry"]

evaluate_answer_node(state, evaluation_text) ==
    LET counted == [state EXCEPT !.assessment_attempts = @ + 1]
        judgment == judgment_of(evaluation_text)
    IN  [update_on_judgment(counted, judgment) EXCEPT
            !.messages = Append(@, AIMessage(evaluation_text))]

\* Mutant: the answer gets a slide of its own and the index moves to it.
question_answering_node_with_slide(state) ==
    [state EXCEPT
        !.messages = Append(@, AIMessage(model_invoke("answer"))),
        !.slides = Append(@, slide_data(Len(@), "Answer")),
        !.current_slide_index = Len(state.slides),
        !.questions_asked = @ + 1]

question_answering_node(state) ==
    [state EXCEPT
        !.messages = Append(@, AIMessage(model_invoke("answer"))),
        !.questions_asked = @ + 1]

\* One superstep: the node the graph runs next, applied to the state.
run_node(node, state, resume, evaluation_text) ==
    CASE node = "introduction" -> introduction_node(state, resume)
      [] node = "teaching" -> returned(teaching_node(state))
      [] node = "assessment" -> returned(assessment_node(state))
      [] node = "evaluate_answer" ->
            returned(evaluate_answer_node(state, evaluation_text))
      [] node = "question_answering" -> returned(question_answering_node(state))

----------------------------------------------------------------------------
(* The service and the handlers *)

\* User messages.  The text of a message is read in one place, the "?" test
\* of post_node_router, so every chat message carries a "?"; the message
\* without one is the "(start)" of websocket_chat.
ChatInputs == { <<"Why", "?">> }

\* Answers to an interrupt: empty, whitespace only, a padded word (a name, or
\* a goal that is no skip keyword) and a padded, capitalised skip keyword.
ResumeAnswers ==
    { <<>>, <<" ">>, <<" ", "Alice">>, <<"Skip", " ">> }

\* No turn is running.  Of a running turn: pc is "graph" while the graph
\* runs, "return" when it has ended or suspended and "error" when it has
\* raised; node is the node to run next, attempt the number of the attempt
\* at it, task the node's input as failed attempts have left it (None: the
\* checkpointed state), stage_before the persisted stage when the turn began,
\* steps the number of nodes the turn has run.
IdleTurn ==
    [ pc |-> "idle", via |-> "none", kind |-> "none", fresh |-> FALSE,
      input |-> None, node |-> "end", resume |-> None, answer |-> None, pending |-> "none",
      interrupt |-> "none", attempt |-> 1, task |-> None, stage_before |-> "none",
      steps |-> 0 ]

\* What a finished request gave its caller.  status is "completed",
\* "suspended", "rejected" (the service raised ValueError) or "error" (it
\* raised another exception); code is the HTTP status of the response, 0
\* where there is none; detail is the text of an HTTP error.
NoResult ==
    [ via |-> "none", kind |-> "none", fresh |-> FALSE, input |-> None,
      pending |-> "none", answer |-> None, status |-> "none", stage |-> "none", prompt |-> "none",
      message |-> None, slide |-> None, total_slides |-> 0,
      code |-> 0, detail |-> None ]

NoNav ==
    [ direction |-> "none", session_found |-> FALSE, before |-> 0, total |-> 0,
      returned |-> None ]

Init ==
    /\ sessions = {}
    /\ ckpt = [exists |-> FALSE, values |-> initialize_state, interrupt |-> "none"]
    /\ turn = IdleTurn
    /\ result = NoResult
    /\ events = <<>>
    /\ ws = "closed"
    /\ nav = NoNav
    /\ goal_skipped = FALSE
    /\ failures = 0
    /\ prompt_invocations = 0
    /\ cleared = FALSE

\* The input of graph.invoke / graph.astream for a user message: the whole
\* initial state for a thread id not in sessions, only the message otherwise.
\* Every key of the input overwrites its channel, except messages, which
\* goes through add_messages.
graph_input(user_message) ==
    IF thread_id \notin sessions
    THEN [initialize_state EXCEPT
            !.messages = add_messages(ckpt.values.messages,
                                      <<HumanMessage(user_message)>>)]
    ELSE [ckpt.values EXCEPT
            !.messages = add_messages(@, <<HumanMessage(user_message)>>)]

\* A turn starts on a user message: the input is written and checkpointed,
\* a pending interrupt is dropped, and entry_router picks the first node.
start_message_turn(via, user_message) ==
    /\ ckpt' = [exists |-> TRUE, values |-> graph_input(user_message),
                interrupt |-> "none"]
    /\ turn' = [ pc |-> "graph", via |-> via, kind |-> "chat",
                 fresh |-> (thread_id \notin sessions),
                 input |-> Some(user_message),
                 node |-> entry_router(graph_input(user_message)),
                 resume |-> None, answer |-> None, pending |-> "none",
                 interrupt |-> "none", attempt |-> 1, task |-> None,
                 stage_before |-> ckpt.values.current_stage, steps |-> 0 ]
    /\ result' = NoResult
    /\ nav' = NoNav
    /\ goal_skipped' = (goal_skipped /\ thread_id \in sessions)
    /\ failures' = failures
    /\ prompt_invocations' = 0
    /\ cleared' = FALSE

\* A turn starts on Command(resume=answer): the interrupted node runs again.
start_resume_turn(via, answer) ==
    /\ ckpt' = [ckpt EXCEPT !.interrupt = "none"]
    /\ turn' = [ pc |-> "graph", via |-> via, kind |-> "resume", fresh |-> FALSE,
                 input |-> None, node |-> "introduction", resume |-> Some(answer),
                 answer |-> Some(answer), pending |-> ckpt.interrupt,
                 interrupt |-> "none", attempt |-> 1, task |-> None,
                 stage_before |-> ckpt.values.current_stage, steps |-> 0 ]
    /\ result' = NoResult
    /\ nav' = NoNav
    /\ goal_skipped' =
         (goal_skipped \/ (ckpt.interrupt = GOAL_PROMPT
                           /\ lower(strip(answer)) \in skip_keywords))
    /\ failures' = failures
    /\ prompt_invocations' = prompt_invocations
    /\ cleared' = FALSE

\* AITeacherService.chat up to graph.invoke
Chat(user_message) ==
    /\ turn.pc = "idle"
    /\ ~blank(user_message)
    /\ Len(ckpt.values.messages) < MaxMessages
    /\ start_message_turn("http", user_message)
    /\ events' = <<>>
    /\ UNCHANGED <<sessions, ws>>

\* AITeacherService.resume_with_answer up to graph.invoke
ResumeWithAnswer(answer) ==
    /\ turn.pc = "idle"
    /\ ckpt.interrupt # "none"
    /\ start_resume_turn("http", answer)
    /\ events' = <<>>
    /\ UNCHANGED <<sessions, ws>>

progress(values) ==
    [ type |-> "progress", stage |-> values.current_stage,
      messages_count |-> Len(values.messages) ]

stream_start == [type |-> "stream_start"]
stream_end == [type |-> "stream_end"]

\* websocket_chat: accept, and for a brand new session the "(start)" turn.
WebsocketConnect ==
    /\ ws = "closed"
    /\ turn.pc = "idle"
    /\ ws' = "open"
    /\ IF thread_id \notin sessions
          /\ (~ckpt.exists \/ Len(ckpt.values.slides) = 0)
       THEN /\ Len(ckpt.values.messages) < MaxMessages
            /\ start_message_turn("ws", <<"(start)">>)
            /\ events' = <<stream_start, progress(graph_input(<<"(start)">>))>>
       ELSE UNCHANGED <<ckpt, turn, result, events, nav, goal_skipped, failures, prompt_invocations, cleared>>
    /\ UNCHANGED sessions

\* websocket_chat, type "message", and handle_chat_stream up to astream
WsMessage(user_message) ==
    /\ ws = "open"
    /\ turn.pc = "idle"
    /\ Len(user_message) > 0
    /\ Len(ckpt.values.messages) < MaxMessages
    /\ start_message_turn("ws", user_message)
    /\ events' = <<stream_start, progress(graph_input(user_message))>>
    /\ UNCHANGED <<sessions, ws>>

\* websocket_chat, type "resume", and handle_resume_stream up to astream
WsResume(answer) ==
    /\ ws = "open"
    /\ turn.pc = "idle"
    /\ ckpt.interrupt # "none"
    /\ Len(answer) > 0
    /\ start_resume_turn("ws", answer)
    /\ events' = <<stream_start, progress(ckpt.values)>>
    /\ UNCHANGED <<sessions, ws>>

WebsocketDisconnect ==
    /\ ws = "open"
    /\ turn.pc = "idle"
    /\ ws' = "closed"
    /\ UNCHANGED <<sessions, ckpt, turn, result, events, nav, goal_skipped, failures, prompt_invocations, cleared>>

\* The state the node to run is given: the checkpointed state, or the same
\* dict as the failed attempts at the node have left it.
task_input == IF turn.task = None THEN ckpt.values ELSE turn.task[1]

\* One superstep of the compiled graph: run the node, then either stop on
\* its interrupt, or commit what it returned and let post_node_router pick
\* the next node.  The checkpoint the step writes is the latest of the
\* thread: no interrupt is pending in it.
RunNode ==
    /\ turn.pc = "graph"
    /\ turn.node # "end"
    /\ turn.steps < MaxSteps
    /\ \E evaluation_text \in EvaluationTexts :
         LET out == run_node(turn.node, task_input, turn.resume, evaluation_text)
         IN  IF out.interrupt # "none"
             THEN /\ ckpt' = [ckpt EXCEPT !.interrupt = out.interrupt]
                  /\ turn' = [turn EXCEPT !.pc = "return",
                                          !.interrupt = out.interrupt]
                  /\ UNCHANGED events
             ELSE /\ ckpt' = [ckpt EXCEPT !.values = out.state,
                                          !.interrupt = "none"]
                  /\ turn' = [turn EXCEPT
                                !.node = post_node_router(out.state),
                                !.resume = None,
                                !.attempt = 1,
                                !.task = None,
                                !.steps = @ + 1,
                                !.pc = IF post_node_router(out.state) = "end"
                                       THEN "return" ELSE "graph"]
                  /\ events' = IF turn.via = "ws"
                               THEN Append(events, progress(out.state))
                               ELSE events
    /\ prompt_invocations' =
         LET made == IF turn.node = "introduction"
                     THEN prompts_generated(task_input) ELSE 0
         IN  IF turn.resume # None THEN prompt_invocations + made
             ELSE IF made > 0 THEN made
             ELSE prompt_invocations
    /\ UNCHANGED <<sessions, result, ws, nav, goal_skipped, failures, cleared>>

\* slides[index], None where Python raises IndexError.
slide_at(slides, index) ==
    IF index \in 0..(Len(slides) - 1) THEN Some(slides[index + 1]) ELSE None

\* The slide the response carries: slides[current_slide_index] if there is one.
current_slide(values) ==
    IF values.slides # <<>> /\ values.current_slide_index < Len(values.slides)
    THEN slide_at(values.slides, values.current_slide_index)
    ELSE None

\* The content of the last AI message, or the fallback.
last_ai_message(messages, fallback) ==
    LET ai == {i \in 1..Len(messages) : messages[i].type = "ai"}
    IN  IF ai = {} THEN fallback
        ELSE messages[CHOOSE i \in ai : \A j \in ai : j <= i].content

\* format_learner_error: the text for the type of the exception; the
\* message of an exception of another type is taken to hold none of the keys.
format_learner_error(error_type) ==
    CASE error_type = "ValueError" ->
            "Oops, that didn't make sense to me. Can you rephrase?"
      [] OTHER ->
            "Something unexpected happened. Mind trying that again? I'm here to help!"

turn_result(status, stage, prompt, message) ==
    [ via |-> turn.via, kind |-> turn.kind, fresh |-> turn.fresh,
      input |-> turn.input, pending |-> turn.pending, answer |-> turn.answer,
      status |-> status, stage |-> stage, prompt |-> prompt,
      message |-> message, slide |-> current_slide(ckpt.values),
      total_slides |-> Len(ckpt.values.slides),
      code |-> IF turn.via # "http" THEN 0
               ELSE IF status = "error" THEN 500 ELSE 200,
      detail |-> IF turn.via = "http" /\ status = "error"
                 THEN Some(format_learner_error("Exception")) ELSE None ]

\* AITeacherService.chat / resume_with_answer after graph.invoke returned.
InvokeReturn ==
    /\ turn.pc = "return"
    /\ turn.via = "http"
    /\ IF turn.interrupt # "none"
       THEN /\ result' = turn_result("suspended", "awaiting_user_input",
                                     turn.interrupt, Some(<<turn.interrupt>>))
            /\ sessions' = IF turn.kind = "chat"
                           THEN sessions \cup {thread_id} ELSE sessions
       ELSE /\ result' = turn_result("completed", ckpt.values.current_stage, "none",
                    Some(ckpt.values.messages[Len(ckpt.values.messages)].content))
            /\ sessions' = sessions \cup {thread_id}
    /\ turn' = IdleTurn
    /\ UNCHANGED <<ckpt, events, ws, nav, goal_skipped, failures, prompt_invocations, cleared>>

\* Mutant: the interrupt is reported as one more progress event.
interrupt_event_as_progress(values, interrupt_value) ==
    [ type |-> "progress",
      message |-> last_ai_message(values.messages,
                                  <<"Please provide your information">>),
      interrupt_id |-> interrupt_value,
      stage |-> "awaiting_user_input",
      current_slide_index |-> values.current_slide_index,
      total_slides |-> Len(values.slides) ]

interrupt_event(values, interrupt_value) ==
    [ type |-> "interrupt",
      message |-> last_ai_message(values.messages,
                                  <<"Please provide your information">>),
      interrupt_id |-> interrupt_value,
      stage |-> "awaiting_user_input",
      current_slide_index |-> values.current_slide_index,
      total_slides |-> Len(values.slides) ]

response_event(values) ==
    [ type |-> "response",
      message |-> last_ai_message(values.messages, <<>>),
      slide |-> current_slide(values),
      current_stage |-> values.current_stage,
      current_topic |-> values.current_topic,
      topics_covered |-> values.topics_covered,
      current_slide_index |-> values.current_slide_index,
      total_slides |-> Len(values.slides) ]

\* handle_chat_stream / handle_resume_stream after the astream loop.
StreamReturn ==
    /\ turn.pc = "return"
    /\ turn.via = "ws"
    /\ IF turn.interrupt # "none"
       THEN /\ result' = turn_result("suspended", "awaiting_user_input",
                    turn.interrupt,
                    Some(last_ai_message(ckpt.values.messages,
                                         <<"Please provide your information">>)))
            /\ sessions' = IF turn.kind = "chat"
                           THEN sessions \cup {thread_id} ELSE sessions
            /\ events' = events \o
                 <<interrupt_event(ckpt.values, turn.interrupt), stream_end>>
       ELSE /\ result' = turn_result("completed", ckpt.values.current_stage, "none",
                    Some(last_ai_message(ckpt.values.messages, <<>>)))
            /\ sessions' = sessions \cup {thread_id}
            /\ events' = events \o <<response_event(ckpt.values), stream_end>>
    /\ turn' = IdleTurn
    /\ UNCHANGED <<ckpt, ws, nav, goal_skipped, failures, prompt_invocations, cleared>>

\* Mutant: "next" does not check the last index.
new_index_unchecked(direction, current_index, slides) ==
    IF direction = "next"
    THEN Some(current_index + 1)
    ELSE IF direction = "previous" /\ current_index > 0
    THEN Some(current_index - 1)
    ELSE None

\* Mutant: "next" at the last index wraps around to the first slide.
new_index_wrapping(direction, current_index, slides) ==
    IF direction = "next"
    THEN Some((current_index + 1) % Len(slides))
    ELSE IF direction = "previous" /\ current_index > 0
    THEN Some(current_index - 1)
    ELSE None

\* The index navigate_slide moves to, None when it cannot move.
new_index(direction, current_index, slides) ==
    IF direction = "next" /\ current_index < Len(slides) - 1
    THEN Some(current_index + 1)
    ELSE IF direction = "previous" /\ current_index > 0
    THEN Some(current_index - 1)
    ELSE None

\* AITeacherService.navigate_slide
NavigateSlide(direction) ==
    /\ turn.pc = "idle"
    /\ LET state == ckpt.values
           target == new_index(direction, state.current_slide_index, state.slides)
           moves == /\ thread_id \in sessions
                    /\ ckpt.exists
                    /\ state.slides # <<>>
                    /\ target # None
       IN  /\ ckpt' = IF moves
                      THEN [ckpt EXCEPT !.values.current_slide_index = target[1]]
                      ELSE ckpt
           /\ nav' = [ direction |-> direction,
                       session_found |-> (thread_id \in sessions),
                       before |-> state.current_slide_index,
                       total |-> Len(state.slides),
                       returned |-> IF moves THEN slide_at(state.slides, target[1])
                                    ELSE None ]
    /\ UNCHANGED <<sessions, turn, result, events, ws, goal_skipped, failures, prompt_invocations, cleared>>

\* clear_session: only the marker in sessions is removed, the checkpoint stays.
ClearSession ==
    /\ turn.pc = "idle"
    /\ thread_id \in sessions
    /\ sessions' = sessions \ {thread_id}
    /\ cleared' = TRUE
    /\ UNCHANGED <<ckpt, turn, result, events, ws, nav, goal_skipped, failures, prompt_invocations>>

Next ==
    \/ \E user_message \in ChatInputs : Chat(user_message)
    \/ \E answer \in ResumeAnswers : ResumeWithAnswer(answer)
    \/ InvokeReturn
    \/ WebsocketConnect
    \/ \E user_message \in ChatInputs : WsMessage(user_message)
    \/ \E answer \in ResumeAnswers : WsResume(answer)
    \/ StreamReturn
    \/ WebsocketDisconnect
    \/ RunNode
    \/ \E direction \in {"next", "previous"} : NavigateSlide(direction)
    \/ ClearSession

Spec == Init /\ [][Next]_vars

----------------------------------------------------------------------------
(* The lesson loop: one HTTP client that goes through the introduction and *)
(* then keeps answering the outstanding assessment question.               *)

\* AITeacherService.chat up to graph.invoke, for the answer to the
\* outstanding assessment question.
AnswerQuestion(user_message) ==
    /\ turn.pc = "idle"
    /\ thread_id \in sessions
    /\ Truthy(ckpt.values.current_assessment_question)
    /\ ckpt.values.assessment_attempts < MaxAttempts
    /\ start_message_turn("http", user_message)
    /\ events' = <<>>
    /\ UNCHANGED <<sessions, ws>>

NextLesson ==
    \/ \E user_message \in ChatInputs : Chat(user_message)
    \/ \E answer \in ResumeAnswers : ResumeWithAnswer(answer)
    \/ \E user_message \in ChatInputs : AnswerQuestion(user_message)
    \/ RunNode
    \/ InvokeReturn

SpecLesson == Init /\ [][NextLesson]_vars

\* The graph goes on running the nodes of a turn it has started.
SpecTurns == SpecLesson /\ WF_vars(RunNode)

\* The graph goes on running, and the learner goes on submitting answers
\* while the lesson takes them.
SpecLearner == SpecLesson /\ WF_vars(NextLesson)

----------------------------------------------------------------------------
(* Failing generation calls: self.model.invoke raises inside a node.  The  *)
(* graph retries the node under its RetryPolicy and, when the attempts are *)
(* used up, the exception leaves graph.invoke / graph.astream.             *)

\* settings.RETRY_MAX_ATTEMPTS
RETRY_MAX_ATTEMPTS == 3

\* Whether the node, run on `state`, reaches a self.model.invoke call.
makes_call(node, state) ==
    CASE node = "introduction" ->
            ~has_initial_greeting(state) \/ Truthy(state.user_name)
                \/ user_message_count(state) >= 1
      [] node = "assessment" -> ~Truthy(state.current_assessment_question)
      [] OTHER -> TRUE

\* What an attempt whose generation call raises leaves in the state dict it
\* was given: the assignments made before the call and those of the node's
\* except branch.  The introduction node has no except branch and assigns
\* nothing before its calls.
generation_fails(node, state) ==
    CASE node = "teaching" ->
            [state EXCEPT
                !.messages = Append(@, AIMessage(model_invoke("teaching_error")))]
      [] node = "assessment" ->
            [state EXCEPT
                !.messages = Append(@, AIMessage(model_invoke("assessment_error")))]
      [] node = "evaluate_answer" ->
            [state EXCEPT
                !.assessment_attempts = @ + 1,
                !.messages = Append(@, AIMessage(model_invoke("evaluation_error"))),
                !.current_stage = "evaluation_complete"]
      [] node = "question_answering" ->
            [state EXCEPT
                !.messages = Append(@, AIMessage(model_invoke("answer_error")))]
      [] OTHER -> state

\* One attempt at the node raises.  Below RETRY_MAX_ATTEMPTS the node is run
\* again on the same state dict; at RETRY_MAX_ATTEMPTS the exception leaves
\* the graph: nothing of the node is checkpointed, and an interrupt that
\* was being resumed stays pending.
NodeFails ==
    /\ turn.pc = "graph"
    /\ turn.node # "end"
    /\ makes_call(turn.node, task_input)
    /\ failures < MaxFailures
    /\ failures' = failures + 1
    /\ UNCHANGED <<prompt_invocations, cleared>>
    /\ IF turn.attempt < RETRY_MAX_ATTEMPTS
       THEN /\ turn' = [turn EXCEPT
                          !.attempt = @ + 1,
                          !.task = Some(generation_fails(turn.node, task_input))]
            /\ UNCHANGED ckpt
       ELSE /\ turn' = [turn EXCEPT !.pc = "error"]
            /\ ckpt' = [ckpt EXCEPT !.interrupt = turn.pending]
    /\ UNCHANGED <<sessions, result, events, ws, nav, goal_skipped>>

\* AITeacherService.chat / resume_with_answer: graph.invoke raised, the
\* exception is raised again and the session is not added to sessions.
InvokeFails ==
    /\ turn.pc = "error"
    /\ turn.via = "http"
    /\ result' = turn_result("error", "none", "none", None)
    /\ turn' = IdleTurn
    /\ UNCHANGED <<sessions, ckpt, events, ws, nav, goal_skipped, failures, prompt_invocations, cleared>>

error_event == [type |-> "error"]

\* handle_chat_stream / handle_resume_stream: graph.astream raised, the
\* handler's except branch sends the error event and returns.
StreamFails ==
    /\ turn.pc = "error"
    /\ turn.via = "ws"
    /\ events' = Append(events, error_event)
    /\ result' = turn_result("error", "none", "none", None)
    /\ turn' = IdleTurn
    /\ UNCHANGED <<sessions, ckpt, ws, nav, goal_skipped, failures, prompt_invocations, cleared>>

NextFailure ==
    \/ \E user_message \in ChatInputs : Chat(user_message)
    \/ \E answer \in ResumeAnswers : ResumeWithAnswer(answer)
    \/ InvokeReturn
    \/ InvokeFails
    \/ WebsocketConnect
    \/ \E user_message \in ChatInputs : WsMessage(user_message)
    \/ \E answer \in ResumeAnswers : WsResume(answer)
    \/ StreamReturn
    \/ StreamFails
    \/ WebsocketDisconnect
    \/ RunNode
    \/ NodeFails

SpecFailure == Init /\ [][NextFailure]_vars

----------------------------------------------------------------------------
(* Requests the handlers refuse, and resumes with nothing to resume *)

\* What a client may send as a message: nothing, a blank, a question.
RequestMessages == {<<>>, <<" ">>} \cup ChatInputs

\* The thread id a request may carry: the session's, or a blank one.
RequestThreadIds == {<<thread_id>>, <<" ">>}

\* What graph.invoke / graph.astream may do when it is given
\* Command(resume=...) for a thread with no pending interrupt: raise, or run
\* no node and return the values of the checkpoint ({} if there is none).
\* Returning None has the effect of raising: the service fails on it before
\* it touches sessions.
ResumeOutcomes == {"raises", "returns"}

request_result(via, kind, status, code, detail) ==
    [NoResult EXCEPT !.via = via, !.kind = kind, !.status = status,
                     !.code = code, !.detail = detail]

\* POST /chat/{thread_id} with an empty message or thread id: chat raises
\* ValueError before it builds the input, and the route answers every
\* exception with status 500 and the text of format_learner_error.
ChatRejected(id, user_message) ==
    /\ turn.pc = "idle"
    /\ blank(user_message) \/ blank(id)
    /\ result' = request_result("http", "chat", "rejected", 500,
                                Some(format_learner_error("ValueError")))
    /\ UNCHANGED <<sessions, ckpt, turn, events, ws, nav, goal_skipped,
                   failures, prompt_invocations, cleared>>

\* POST /chat/resume/{thread_id} with an empty thread id.
ResumeRejected(id) ==
    /\ turn.pc = "idle"
    /\ blank(id)
    /\ result' = request_result("http", "resume", "rejected", 500,
                                Some(format_learner_error("ValueError")))
    /\ UNCHANGED <<sessions, ckpt, turn, events, ws, nav, goal_skipped,
                   failures, prompt_invocations, cleared>>

\* resume_with_answer for a thread with no pending interrupt: there is no
\* test for one, the graph is invoked.  If it returns, the thread id is
\* added to sessions, and the last message is returned as the response, or
\* ValueError is raised when there is no message.
ResumeWithoutSuspension(outcome) ==
    /\ turn.pc = "idle"
    /\ ckpt.interrupt = "none"
    /\ IF outcome = "raises"
       THEN /\ result' = request_result("http", "resume", "error", 500,
                            Some(format_learner_error("Exception")))
            /\ UNCHANGED sessions
       ELSE /\ sessions' = sessions \cup {thread_id}
            /\ result' =
                 IF ckpt.exists /\ ckpt.values.messages # <<>>
                 THEN [request_result("http", "resume", "completed", 200, None)
                        EXCEPT !.stage = ckpt.values.current_stage,
                               !.message = Some(ckpt.values.messages[
                                              Len(ckpt.values.messages)].content),
                               !.slide = current_slide(ckpt.values),
                               !.total_slides = Len(ckpt.values.slides)]
                 ELSE request_result("http", "resume", "rejected", 500,
                            Some(format_learner_error("ValueError")))
    /\ UNCHANGED <<ckpt, turn, events, ws, nav, goal_skipped, failures,
                   prompt_invocations, cleared>>

\* websocket_chat, type "message" without content: an error event, and the
\* loop goes on.
WsMessageRejected ==
    /\ ws = "open"
    /\ turn.pc = "idle"
    /\ events' = <<error_event>>
    /\ result' = request_result("ws", "chat", "rejected", 0, None)
    /\ UNCHANGED <<sessions, ckpt, turn, ws, nav, goal_skipped, failures,
                   prompt_invocations, cleared>>

\* websocket_chat, type "resume" without answer.
WsResumeRejected ==
    /\ ws = "open"
    /\ turn.pc = "idle"
    /\ events' = <<error_event>>
    /\ result' = request_result("ws", "resume", "rejected", 0, None)
    /\ UNCHANGED <<sessions, ckpt, turn, ws, nav, goal_skipped, failures,
                   prompt_invocations, cleared>>

\* handle_resume_stream for a thread with no pending interrupt: `chunks` is
\* the number of values the stream yields before it ends.
WsResumeWithoutSuspension(outcome, chunks) ==
    /\ ws = "open"
    /\ turn.pc = "idle"
    /\ ckpt.interrupt = "none"
    /\ IF outcome = "raises"
       THEN /\ events' = <<stream_start, error_event>>
            /\ result' = request_result("ws", "resume", "error", 0, None)
            /\ UNCHANGED sessions
       ELSE /\ sessions' = sessions \cup {thread_id}
            /\ events' =
                 <<stream_start>>
                 \o (IF chunks = 1 THEN <<progress(ckpt.values)>> ELSE <<>>)
                 \o <<response_event(ckpt.values), stream_end>>
            /\ result' =
                 [request_result("ws", "resume", "completed", 0, None)
                    EXCEPT !.stage = ckpt.values.current_stage,
                           !.message = Some(last_ai_message(ckpt.values.messages,
                                                            <<>>)),
                           !.slide = current_slide(ckpt.values),
                           !.total_slides = Len(ckpt.values.slides)]
    /\ UNCHANGED <<ckpt, turn, ws, nav, goal_skipped, failures,
                   prompt_invocations, cleared>>

\* POST /slides/navigate/{thread_id}/{direction} with a direction that is
\* neither "next" nor "previous": status 400, before the service is called.
NavigateRejected(direction) ==
    /\ turn.pc = "idle"
    /\ direction \notin {"next", "previous"}
    /\ result' = request_result("http", "navigate", "rejected", 400,
                                Some("Direction must be 'next' or 'previous'"))
    /\ UNCHANGED <<sessions, ckpt, turn, events, ws, nav, goal_skipped,
                   failures, prompt_invocations, cleared>>

\* A message is accepted while the history is short of MaxRequestMessages.
AcceptsMessage == Len(ckpt.values.messages) < MaxRequestMessages

\* POST /chat/{thread_id} with a message chat accepts.
ChatAccepted(user_message) ==
    /\ AcceptsMessage
    /\ Chat(user_message)

\* websocket_chat, type "message" with content: whatever is not the empty
\* string goes to handle_chat_stream.
WsMessageAccepted(user_message) ==
    /\ AcceptsMessage
    /\ WsMessage(user_message)

NextRequests ==
    \/ \E user_message \in ChatInputs : ChatAccepted(user_message)
    \/ \E id \in RequestThreadIds, user_message \in RequestMessages :
         ChatRejected(id, user_message)
    \/ \E answer \in ResumeAnswers : ResumeWithAnswer(answer)
    \/ \E id \in RequestThreadIds : ResumeRejected(id)
    \/ \E outcome \in ResumeOutcomes : ResumeWithoutSuspension(outcome)
    \/ InvokeReturn
    \/ WebsocketConnect
    \/ \E user_message \in RequestMessages : WsMessageAccepted(user_message)
    \/ WsMessageRejected
    \/ \E answer \in ResumeAnswers : WsResume(answer)
    \/ WsResumeRejected
    \/ \E outcome \in ResumeOutcomes, chunks \in {0, 1} :
         WsResumeWithoutSuspension(outcome, chunks)
    \/ StreamReturn
    \/ RunNode
    \/ \E direction \in {"next", "previous", "first"} : NavigateRejected(direction)
    \/ ClearSession

SpecRequests == Init /\ [][NextRequests]_vars

----------------------------------------------------------------------------
(* Two clients on one session, and connections that are lost *)

\* graph.invoke from `node` on: the nodes run one after the other until
\* post_node_router ends the turn, or a node interrupts, or the turn is cut
\* off ("error"), with the state that is checkpointed then.
RECURSIVE run_graph(_, _, _, _, _)
run_graph(node, state, resume, evaluation_text, steps) ==
    IF node = "end" THEN returned(state)
    ELSE IF steps >= MaxSteps THEN interrupted("error", state)
    ELSE LET out == run_node(node, state, resume, evaluation_text)
         IN  IF out.interrupt # "none" THEN interrupted(out.interrupt, state)
             ELSE run_graph(post_node_router(out.state), out.state, None,
                            evaluation_text, steps + 1)

\* POST /chat/{thread_id} while a streamed turn of the same thread is between
\* two nodes.  Nothing keeps the request waiting: handle_chat_stream awaits
\* between the chunks of graph.astream, and chat then runs its whole turn,
\* which calls graph.invoke without awaiting.  The streamed turn goes on with
\* the state it holds (task) and not with what chat has checkpointed.
ChatDuringStream(user_message) ==
    /\ turn.pc = "graph"
    /\ turn.via = "ws"
    /\ ~blank(user_message)
    /\ AcceptsMessage
    /\ \E evaluation_text \in EvaluationTexts :
         LET input == graph_input(user_message)
             out == run_graph(entry_router(input), input, None,
                              evaluation_text, 0)
             values == out.state
         IN  /\ ckpt' = [exists |-> TRUE, values |-> values,
                         interrupt |-> IF out.interrupt = "error" THEN "none"
                                       ELSE out.interrupt]
             /\ sessions' = IF out.interrupt = "error" THEN sessions
                            ELSE sessions \cup {thread_id}
             /\ result' =
                  IF out.interrupt = "error"
                  THEN [request_result("http", "chat", "error", 500,
                                       Some(format_learner_error("Exception")))
                          EXCEPT !.fresh = (thread_id \notin sessions),
                                 !.input = Some(user_message)]
                  ELSE IF out.interrupt # "none"
                  THEN [request_result("http", "chat", "suspended", 200, None)
                          EXCEPT !.fresh = (thread_id \notin sessions),
                                 !.input = Some(user_message),
                                 !.stage = "awaiting_user_input",
                                 !.prompt = out.interrupt,
                                 !.message = Some(<<out.interrupt>>),
                                 !.slide = current_slide(values),
                                 !.total_slides = Len(values.slides)]
                  ELSE [request_result("http", "chat", "completed", 200, None)
                          EXCEPT !.fresh = (thread_id \notin sessions),
                                 !.input = Some(user_message),
                                 !.stage = values.current_stage,
                                 !.message = Some(values.messages[
                                                Len(values.messages)].content),
                                 !.slide = current_slide(values),
                                 !.total_slides = Len(values.slides)]
    /\ turn' = [turn EXCEPT !.task = Some(task_input)]
    /\ cleared' = FALSE
    /\ UNCHANGED <<events, ws, nav, goal_skipped, failures, prompt_invocations>>

\* The connection is lost during a streamed turn: send_json raises in the
\* astream loop and again in the except branch of the handler, the stream
\* is abandoned where it is, and websocket_chat closes.  The checkpoints
\* written so far stay; the thread id is added to sessions only after the
\* stream, so a thread that was not in sessions is not in it now.
ConnectionLost ==
    /\ ws = "open"
    /\ turn.via = "ws"
    /\ turn.pc \in {"graph", "return", "error"}
    /\ ws' = "closed"
    /\ ckpt' = IF turn.pc = "graph" /\ turn.resume # None
               THEN [ckpt EXCEPT !.interrupt = turn.pending]
               ELSE ckpt
    /\ result' = turn_result("lost", "none", "none", None)
    /\ turn' = IdleTurn
    /\ UNCHANGED <<sessions, events, nav, goal_skipped, failures,
                   prompt_invocations, cleared>>

NextConnections ==
    \/ WebsocketConnect
    \/ \E user_message \in ChatInputs : WsMessageAccepted(user_message)
    \/ \E answer \in ResumeAnswers : WsResume(answer)
    \/ StreamReturn
    \/ WebsocketDisconnect
    \/ RunNode
    \/ \E user_message \in ChatInputs : ChatDuringStream(user_message)
    \/ ConnectionLost

SpecConnections == Init /\ [][NextConnections]_vars

----------------------------------------------------------------------------
(* The advance through the curriculum: post_node_router applied to the     *)
(* states the correct branch of evaluate_answer_node returns, and the      *)
(* lesson that goes on from there.                                         *)

\* The evaluations that declare the judgment correct.
PassingTexts ==
    { text \in EvaluationTexts : contains(lower(text), "judgment: correct") }

\* The session with the first question outstanding and an answer to it
\* submitted, topics_remaining holding `remaining`.
answered_state(user_message, remaining) ==
    LET welcomed ==
            introduction_welcome(
                [initialize_state EXCEPT
                    !.user_name = Some(<<"Alice">>),
                    !.learning_goal = Some(<<"Alice">>),
                    !.slides = <<slide_data(0, "Meet Meemo!")>>])
        asked == assessment_node([welcomed EXCEPT !.topics_remaining = remaining])
    IN  [asked EXCEPT !.messages = add_messages(@, <<HumanMessage(user_message)>>)]

\* evaluate_answer_node from the update on, for the judgment correct: the
\* state the node returns when its correct branch runs.
evaluation_passed(state, evaluation_text) ==
    [update_on_judgment([state EXCEPT !.assessment_attempts = @ + 1], "correct")
        EXCEPT !.messages = Append(@, AIMessage(evaluation_text))]

\* The states post_node_router is applied to: one with topics left and one
\* with none, for each passing evaluation.
PassedStates ==
    { evaluation_passed(answered_state(user_message, remaining), text) :
        user_message \in ChatInputs,
        remaining \in { <<>>, Tail(curriculum) },
        text \in PassingTexts }

\* An HTTP chat turn at the step after evaluate_answer has returned `state`:
\* the state is committed and post_node_router has picked the next node.
InitAdvance ==
    /\ sessions = {thread_id}
    /\ \E state \in PassedStates :
         /\ ckpt = [exists |-> TRUE, values |-> state, interrupt |-> "none"]
         /\ turn = [IdleTurn EXCEPT
                      !.pc = IF post_node_router(state) = "end"
                             THEN "return" ELSE "graph",
                      !.via = "http", !.kind = "chat",
                      !.input = Some(state.messages[Len(state.messages) - 1].content),
                      !.node = post_node_router(state),
                      !.stage_before = "assessment",
                      !.steps = 1]
    /\ result = NoResult
    /\ events = <<>>
    /\ ws = "closed"
    /\ nav = NoNav
    /\ goal_skipped = FALSE
    /\ failures = 0
    /\ prompt_invocations = 0
    /\ cleared = FALSE

NextAdvance ==
    \/ \E user_message \in ChatInputs : Chat(user_message)
    \/ RunNode
    \/ InvokeReturn
    \/ WebsocketConnect
    \/ \E user_message \in ChatInputs : WsMessage(user_message)
    \/ StreamReturn
    \/ WebsocketDisconnect

SpecAdvance == InitAdvance /\ [][NextAdvance]_vars

----------------------------------------------------------------------------
(* The question_answering node: post_node_router applied to the states in  *)
(* which its question test passes, and the lesson that goes on from there. *)

\* The stages in which post_node_router looks for a question.
QuestionStages ==
    {"introduction", "teaching", "evaluation_complete", "question_answering"}

\* The session after the welcome, with a question of the learner as its
\* last message.
AskedStates ==
    { [answered_state(user_message, remaining) EXCEPT
            !.current_stage = stage,
            !.current_assessment_question = question] :
        user_message \in ChatInputs,
        remaining \in { <<>>, Tail(curriculum) },
        stage \in QuestionStages,
        question \in { None, Some(model_invoke("question")) } }

\* An HTTP chat turn at the step in which post_node_router has found the
\* question in `state` and picked the next node.
InitQuestion ==
    /\ sessions = {thread_id}
    /\ \E state \in AskedStates :
         /\ question_detected(state)
         /\ ckpt = [exists |-> TRUE, values |-> state, interrupt |-> "none"]
         /\ turn = [IdleTurn EXCEPT
                      !.pc = "graph",
                      !.via = "http", !.kind = "chat",
                      !.input = Some(state.messages[Len(state.messages)].content),
                      !.node = post_node_router(state),
                      !.stage_before = state.current_stage,
                      !.steps = 1]
    /\ result = NoResult
    /\ events = <<>>
    /\ ws = "closed"
    /\ nav = NoNav
    /\ goal_skipped = FALSE
    /\ failures = 0
    /\ prompt_invocations = 0
    /\ cleared = FALSE

NextQuestion ==
    \/ \E user_message \in ChatInputs : Chat(user_message)
    \/ RunNode
    \/ InvokeReturn

SpecQuestion == InitQuestion /\ [][NextQuestion]_vars

----------------------------------------------------------------------------
(* Properties.  `result` is reset when a turn starts, so result.kind names *)
(* a turn only in the states after that turn has returned.                 *)

\* The last finished turn resumed the prompt `prompt`.
Resumed(prompt) == result.kind = "resume" /\ result.pending = prompt

\* The answer of the last finished resume turn, whitespace stripped.
StrippedAnswer == strip(result.answer[1])

\* The stored name is one the learner gave, not the "Student" default.
NameGiven ==
    Truthy(ckpt.values.user_name) /\ ckpt.values.user_name # Some(<<"Student">>)

\* C1: after the name has been given, answering the goal prompt with "skip"
\* ends the turn completed, with current_stage teaching, current_topic the
\* first curriculum topic and at least 2 slides.
C1_SkipStartsTeaching ==
    (Resumed(GOAL_PROMPT) /\ lower(StrippedAnswer) = <<"skip">> /\ NameGiven)
    => /\ result.status = "completed"
       /\ result.stage = "teaching"
       /\ ckpt.values.current_topic = Some(curriculum[1])
       /\ result.total_slides >= 2

\* C2: resuming the name prompt with a non-empty name ends the same turn in
\* a second suspension that prompts for the learning goal.
C2_NameResumeSuspendsForGoal ==
    (Resumed(NAME_PROMPT) /\ StrippedAnswer # <<>>)
    => /\ result.status = "suspended"
       /\ result.stage = "awaiting_user_input"
       /\ result.prompt = GOAL_PROMPT

\* C3: resuming the goal prompt with a real (non-skip) goal ends the turn
\* completed, and the stage it reports is teaching.
C3_GoalResumeReportsTeaching ==
    (Resumed(GOAL_PROMPT) /\ lower(StrippedAnswer) \notin skip_keywords)
    => /\ result.status = "completed"
       /\ result.stage = "teaching"

Streamed == result.via = "ws" /\ Len(events) >= 2
Terminal == events[Len(events) - 1]
Bootstrap == Streamed /\ result.input = Some(<<"(start)">>)

C6_NoGoalPromptAfterSkip ==
    goal_skipped => ckpt.interrupt # GOAL_PROMPT

\* C7: after the name prompt is resumed with an empty or whitespace-only
\* answer, user_name is still unset: no default and no empty name is stored.
C7_BlankNameNotStored ==
    (Resumed(NAME_PROMPT) /\ StrippedAnswer = <<>>)
    => ckpt.values.user_name = None

\* slides[i].slide_number == i (0-based) for every slide.
SlideNumbering ==
    \A i \in 1..Len(ckpt.values.slides) :
        ckpt.values.slides[i].slide_number = i - 1

\* A turn starts on a thread id that is not in sessions: a new session.
NewSession ==
    thread_id \notin sessions /\ turn.pc = "idle" /\ turn'.pc = "graph"

\* The slides before the step are a prefix of the slides after it.
SlidesKept ==
    /\ Len(ckpt'.values.slides) >= Len(ckpt.values.slides)
    /\ SubSeq(ckpt'.values.slides, 1, Len(ckpt.values.slides)) = ckpt.values.slides

\* C8: in every reachable state slides[i].slide_number == i, and within a
\* session no step removes or reorders a slide.
C8_SlidesNumberedAndKept ==
    []SlideNumbering /\ [][NewSession \/ SlidesKept]_vars

C8_Witness ==
    /\ Len(ckpt.values.slides) >= 3
    /\ ckpt.values.slides[3].title = curriculum[1]

\* C9: whenever the session has a slide, 0 <= current_slide_index < len(slides).
C9_IndexInRange ==
    ckpt.values.slides # <<>>
    => ckpt.values.current_slide_index \in 0..(Len(ckpt.values.slides) - 1)

C9_Witness ==
    /\ nav.returned # None
    /\ Len(ckpt.values.slides) >= 3
    /\ ckpt.values.current_slide_index = 2

\* C10: navigate_slide("next") at the last index, and "previous" at index
\* 0, return no slide and leave current_slide_index unchanged; any other
\* navigation (of a session the service knows, holding slides) moves the
\* index by exactly one and returns the slide at the new index.
C10_NavigationBounds ==
    nav.direction # "none"
    => LET index == ckpt.values.current_slide_index
           step == IF nav.direction = "next" THEN 1 ELSE -1
       IN  IF \/ nav.direction = "next" /\ nav.before = nav.total - 1
              \/ nav.direction = "previous" /\ nav.before = 0
           THEN nav.returned = None /\ index = nav.before
           ELSE (nav.session_found /\ nav.total > 0)
                => /\ index = nav.before + step
                   /\ nav.returned # None
                   /\ nav.returned = slide_at(ckpt.values.slides, index)

C10_Witness ==
    /\ nav.direction = "next" /\ nav.session_found
    /\ nav.total >= 3 /\ nav.before = nav.total - 1
    /\ nav.returned = None

\* The assessment node has just stored its question: the question is the
\* last message and no answer has been evaluated.
QuestionJustStored ==
    LET state == ckpt.values
    IN  /\ Truthy(state.current_assessment_question)
        /\ state.assessment_attempts = 0
        /\ state.messages # <<>>
        /\ state.messages[Len(state.messages)] =
               AIMessage(state.current_assessment_question[1])

\* C11: running the assessment node on the state an assessment node run has
\* produced (no user turn in between) changes nothing: the question, the
\* attempts and the messages are those of the first run, so one question is
\* stored and asked.
C11_AssessmentIdempotent ==
    LET once == assessment_node(ckpt.values)
        twice == assessment_node(once)
    IN  /\ twice.current_assessment_question = once.current_assessment_question
        /\ twice.assessment_attempts = once.assessment_attempts
        /\ twice.messages = once.messages
        /\ Truthy(once.current_assessment_question)

C11_Witness ==
    /\ QuestionJustStored
    /\ assessment_node(ckpt.values) = ckpt.values
    /\ Cardinality({i \in 1..Len(ckpt.values.messages) :
            ckpt.values.messages[i].content = model_invoke("question")}) = 1

\* The number of times `topic` is in `topics`.
occurrences(topics, topic) ==
    Cardinality({i \in 1..Len(topics) : topics[i] = topic})

\* The step in which the teaching node runs and returns.
TeachingCompletes ==
    turn.pc = "graph" /\ turn.node = "teaching" /\ ckpt'.values # ckpt.values

\* C12: the step in which the teaching node completes for current_topic T
\* ends with T exactly once in topics_covered, also when T was taught
\* before, and with current_stage == assessment.
C12_TaughtTopicCoveredOnce ==
    [][TeachingCompletes
       => /\ ckpt'.values.current_topic # None
          /\ occurrences(ckpt'.values.topics_covered,
                         ckpt'.values.current_topic[1]) = 1
          /\ ckpt'.values.current_stage = "assessment"]_vars

\* The topic has been taught twice (a review) and is covered once.
C12_Witness ==
    LET state == ckpt.values
    IN  /\ state.current_topic = Some(curriculum[1])
        /\ Cardinality({i \in 1..Len(state.slides) :
                state.slides[i].title = curriculum[1]}) = 2
        /\ state.topics_covered = <<curriculum[1]>>
        /\ state.current_stage = "assessment"

\* The evaluate_answer node has just returned: the evaluator's text is the
\* last message.  `attempts` is the attempt the node counted, `declared` the
\* judgment line of the evaluator's text.
Evaluated(attempts, declared) ==
    LET state == ckpt.values
    IN  /\ state.messages # <<>>
        /\ state.messages[Len(state.messages)].type = "ai"
        /\ state.messages[Len(state.messages)].content \in EvaluationTexts
        /\ contains(state.messages[Len(state.messages)].content, declared)
        /\ state.assessment_attempts = attempts

\* C13: after an answer is judged incorrect on the second attempt,
\* current_stage is needs_review and current_assessment_question is absent.
C13_SecondIncorrectClearsQuestion ==
    Evaluated(2, "JUDGMENT: incorrect")
    => /\ ckpt.values.current_stage = "needs_review"
       /\ ckpt.values.current_assessment_question = None

\* beginner < intermediate < advanced
rank(level) ==
    CASE level = "beginner" -> 0
      [] level = "intermediate" -> 1
      [] level = "advanced" -> 2

\* intermediate requires assessments_passed >= 3, advanced requires >= 6.
LevelAgrees(state) ==
    /\ state.understanding_level \in {"beginner", "intermediate", "advanced"}
    /\ rank(state.understanding_level) >= 1 => state.assessments_passed >= 3
    /\ rank(state.understanding_level) = 2 => state.assessments_passed >= 6

\* The update of evaluate_answer, applied to the session with any count of
\* passed assessments and any level that agrees with it, for every judgment
\* and attempt: the level still agrees and has not moved backward.
PromotionSound ==
    \A passed \in 0..MaxPassed :
    \A level \in {"beginner", "intermediate", "advanced"} :
    \A judgment \in {"correct", "partial", "incorrect"} :
    \A attempts \in 1..(MaxAttempts + 1) :
        LET before == [ckpt.values EXCEPT
                          !.assessments_passed = passed,
                          !.understanding_level = level,
                          !.assessment_attempts = attempts]
            after == update_on_judgment(before, judgment)
        IN  LevelAgrees(before)
            => /\ LevelAgrees(after)
               /\ rank(after.understanding_level) >= rank(before.understanding_level)

\* C14: in every reachable state understanding_level agrees with the
\* thresholds on assessments_passed, the update of evaluate_answer keeps it
\* so from any count of passed assessments, and no step of an execution
\* moves the level backward.
C14_LevelFollowsThresholds ==
    /\ [](LevelAgrees(ckpt.values) /\ PromotionSound)
    /\ [][rank(ckpt'.values.understanding_level)
            >= rank(ckpt.values.understanding_level)]_vars

\* An answer has been evaluated and the level is the one of the count.
C14_Witness ==
    /\ Evaluated(1, "JUDGMENT: partial")
    /\ ckpt.values.understanding_level = "beginner"
    /\ ckpt.values.assessments_passed < 3

\* The names in a list of topics.
names(topics) == {topics[i] : i \in 1..Len(topics)}

\* Every name a session's topic fields or the curriculum hold.
TopicNames ==
    names(curriculum) \cup names(ckpt.values.topics_covered)
        \cup names(ckpt.values.topics_remaining)
        \cup names(ckpt.values.current_topic)

\* C15 as stated: topics_covered, {current_topic} and topics_remaining
\* together hold every curriculum topic exactly as often as the curriculum
\* does (each topic is in exactly one of the three).
C15_TopicsAreMultisetOfCurriculum ==
    \A topic \in TopicNames :
        occurrences(ckpt.values.topics_covered, topic)
          + occurrences(ckpt.values.current_topic, topic)
          + occurrences(ckpt.values.topics_remaining, topic)
        = occurrences(curriculum, topic)

\* C15 amended: the names in topics_covered, {current_topic} and
\* topics_remaining together are the names of the curriculum, no topic is
\* listed twice in topics_covered or in topics_remaining, and no topic of
\* topics_remaining is covered or current.  (The current topic is also in
\* topics_covered from the moment its teaching node has completed.)
C15_TopicsAreSetOfCurriculum ==
    LET state == ckpt.values
    IN  /\ names(state.topics_covered) \cup names(state.current_topic)
              \cup names(state.topics_remaining) = names(curriculum)
        /\ \A topic \in TopicNames :
              /\ occurrences(state.topics_covered, topic) <= 1
              /\ occurrences(state.topics_remaining, topic) <= 1
        /\ names(state.topics_remaining)
              \cap (names(state.topics_covered) \cup names(state.current_topic)) = {}

\* The current topic has been taught: it is covered and still current.
C15_Witness ==
    /\ ckpt.values.current_topic = Some(curriculum[1])
    /\ ckpt.values.topics_covered = <<curriculum[1]>>
    /\ ckpt.values.topics_remaining = Tail(curriculum)

\* The position of the learner's latest utterance in messages, 0 if none.
LatestUtterance ==
    LET human == {i \in 1..Len(ckpt.values.messages) :
                     ckpt.values.messages[i].type = "human"}
    IN  IF human = {} THEN 0 ELSE CHOOSE i \in human : \A j \in human : j <= i

\* The graph has ended the turn without suspending: the last node has
\* returned and the router has chosen the end.
TurnEnded == turn.pc = "return" /\ turn.interrupt = "none"

\* C16: a turn whose latest learner utterance contains "?" does not end in a
\* stage other than assessment, needs_retry, needs_hint, needs_review
\* without having been diverted to question_answering: an answer follows
\* the utterance and questions_asked has increased.
C16_QuestionIsAnswered ==
    (/\ TurnEnded
     /\ LatestUtterance > 0
     /\ contains(ckpt.values.messages[LatestUtterance].content, "?")
     /\ ckpt.values.current_stage \notin
            {"assessment", "needs_retry", "needs_hint", "needs_review"})
    => /\ ckpt.values.questions_asked >= 1
       /\ \E i \in (LatestUtterance + 1)..Len(ckpt.values.messages) :
             ckpt.values.messages[i] = AIMessage(model_invoke("answer"))

C18_ErrorThenStreamEnd ==
    (result.via = "ws" /\ result.status = "error")
    => /\ Cardinality({i \in 1..Len(events) : events[i].type = "error"}) = 1
       /\ events[Len(events)].type = "stream_end"
       /\ events[Len(events) - 1].type = "error"

\* C19: when a teaching, assessment, evaluate_answer or question_answering
\* node has failed on its last attempt, the persisted current_stage is the
\* one the session had before the turn.
C19_FailedTurnKeepsStage ==
    (/\ turn.pc = "error"
     /\ turn.node \in {"teaching", "assessment", "evaluate_answer",
                        "question_answering"})
    => ckpt.values.current_stage = turn.stage_before

\* The assistant turns that ask for the name or for the goal.
prompt_turns(messages) ==
    Cardinality({i \in 1..Len(messages) :
                   /\ messages[i].type = "ai"
                   /\ messages[i].content \in {model_invoke("ask_name"),
                                                model_invoke("ask_goal")}})

\* The step in which the suspended introduction node, run again with the
\* answer, returns and is committed.
ResumedNodeReturns ==
    /\ turn.pc = "graph" /\ turn.kind = "resume"
    /\ turn.resume # None /\ turn'.resume = None

\* C20: when the suspended introduction node is resumed with an answer and
\* returns, the prompt of that suspension has been generated by one call of
\* the model, and the session has gained exactly one assistant prompt turn.
C20_ResumeDoesNotRepeatGeneration ==
    [][ResumedNodeReturns
       => /\ prompt_invocations' = 1
          /\ prompt_turns(ckpt'.values.messages)
                = prompt_turns(ckpt.values.messages) + 1]_vars

\* The part of C20 the code keeps: one assistant prompt turn per suspension.
OnePromptTurnPerSuspension ==
    [][ResumedNodeReturns
       => prompt_turns(ckpt'.values.messages)
            = prompt_turns(ckpt.values.messages) + 1]_vars

\* Every resumed suspension has had its prompt generated twice.
PromptGeneratedTwice ==
    [][ResumedNodeReturns => prompt_invocations' = 2]_vars

\* The values entry_router reads, over which C27 ranges: a name that is
\* absent, empty or given; a goal that is absent or given; every stage, the
\* terminal one and one that is no stage; a question that is absent, empty
\* or outstanding.
RoutedNames == {None, Some(<<>>), Some(<<"Alice">>)}
RoutedGoals == {None, Some(<<"goal">>)}
RoutedStages ==
    {"introduction", "teaching", "assessment", "evaluation_complete",
     "needs_hint", "needs_retry", "needs_review", "question_answering",
     "completed", "unknown"}
RoutedQuestions == {None, Some(<<>>), Some(<<"question">>)}

routed_state(user_name, learning_goal, stage, question) ==
    [initialize_state EXCEPT
        !.user_name = user_name,
        !.learning_goal = learning_goal,
        !.current_stage = stage,
        !.current_assessment_question = question]

\* The entry-routing rules in their priority order.
EntryRoutingRule(user_name, learning_goal, stage, question) ==
    IF user_name \in {None, Some(<<>>)} THEN "introduction"
    ELSE IF learning_goal = None /\ stage = "introduction" THEN "introduction"
    ELSE IF stage = "assessment" /\ question \notin {None, Some(<<>>)}
    THEN "evaluate_answer"
    ELSE IF stage \in {"introduction", "teaching", "assessment",
                       "question_answering"}
    THEN stage
    ELSE IF stage \in {"needs_hint", "needs_retry"} THEN "evaluate_answer"
    ELSE "teaching"

EntryRouterAgrees ==
    \A user_name \in RoutedNames, learning_goal \in RoutedGoals,
       stage \in RoutedStages, question \in RoutedQuestions :
        entry_router(routed_state(user_name, learning_goal, stage, question))
          = EntryRoutingRule(user_name, learning_goal, stage, question)

\* A turn starts on a user message.
MessageTurnStarts ==
    turn.pc = "idle" /\ turn'.pc = "graph" /\ turn'.kind = "chat"

\* C27: for every combination of user_name, learning_goal, current_stage and
\* current_assessment_question, entry_router selects the node the
\* entry-routing rules give in their priority order, and the first node of
\* every turn that starts on a message is the one the rules give for the
\* state the turn starts from.
C27_EntryRouterFollowsRules ==
    /\ []EntryRouterAgrees
    /\ [][MessageTurnStarts
          => turn'.node = EntryRoutingRule(ckpt'.values.user_name,
                                           ckpt'.values.learning_goal,
                                           ckpt'.values.current_stage,
                                           ckpt'.values.current_assessment_question)]_vars

\* A turn has started on the answer to an outstanding question and is about
\* to run evaluate_answer.
C27_Witness ==
    /\ turn.pc = "graph" /\ turn.kind = "chat"
    /\ turn.node = "evaluate_answer"
    /\ ckpt.values.current_stage = "assessment"
    /\ Truthy(ckpt.values.current_assessment_question)
    /\ ckpt.values.messages[Len(ckpt.values.messages)].type = "human"

\* The step in which introduction_node returns with the welcome given.
IntroductionCompletes ==
    /\ turn.pc = "graph" /\ turn.node = "introduction"
    /\ ckpt.values.current_stage = "introduction"
    /\ ckpt'.values.current_stage = "teaching"

QuestionOnlyForTaughtTopic ==
    Truthy(ckpt.values.current_assessment_question)
    => /\ ckpt.values.current_topic # None
       /\ occurrences(ckpt.values.topics_covered,
                      ckpt.values.current_topic[1]) > 0

\* C28: when the introduction completes, the node that runs next is teaching,
\* for curriculum[0]; and whenever an assessment question is outstanding,
\* current_topic is in topics_covered.
C28_TeachingFollowsIntroduction ==
    /\ [][IntroductionCompletes
          => /\ turn'.node = "teaching"
             /\ ckpt'.values.current_topic = Some(curriculum[1])]_vars
    /\ []QuestionOnlyForTaughtTopic

\* C29: when the teaching node completes, the assessment node is the node
\* that runs next, in the same turn.
C29_AssessmentFollowsTeaching ==
    [][TeachingCompletes
       => /\ turn'.pc = "graph"
          /\ turn'.node = "assessment"]_vars

\* The step in which evaluate_answer returns with an evaluation that
\* declares the judgment correct, in the format the prompt asks for.
EvaluationDeclaresCorrect ==
    /\ turn.pc = "graph" /\ turn.node = "evaluate_answer"
    /\ Len(ckpt'.values.messages) = Len(ckpt.values.messages) + 1
    /\ ckpt'.values.messages[Len(ckpt'.values.messages)].type = "ai"
    /\ contains(ckpt'.values.messages[Len(ckpt'.values.messages)].content,
                "JUDGMENT: correct")

\* C30: when the evaluator's response declares the judgment correct,
\* evaluate_answer adds exactly 1 to assessments_passed, clears
\* current_assessment_question, resets assessment_attempts to 0 and sets
\* current_stage to evaluation_complete.
C30_CorrectAnswerPasses ==
    [][EvaluationDeclaresCorrect
       => /\ ckpt'.values.assessments_passed
                = ckpt.values.assessments_passed + 1
          /\ ckpt'.values.current_assessment_question = None
          /\ ckpt'.values.assessment_attempts = 0
          /\ ckpt'.values.current_stage = "evaluation_complete"]_vars

\* The state a session restarts from: that of initialize_state, with the
\* message of the turn as its whole history.
FreshState(values, user_message) ==
    values = [initialize_state EXCEPT
                !.messages = <<HumanMessage(user_message)>>]

\* C26: the first message after clear_session starts its turn from a fresh
\* state: stage introduction, no user name or goal, no slides, zero counters,
\* and a message history with nothing from before the clear.
C26_ClearRestartsFresh ==
    [][(cleared /\ MessageTurnStarts)
       => FreshState(ckpt'.values, turn'.input[1])]_vars

\* The turn that is running was started by a message that is not empty.
RunningTurnHasMessage ==
    (turn.pc # "idle" /\ turn.kind = "chat") => ~blank(turn.input[1])

\* A message is refused.
MessageRefused ==
    /\ result'.kind = "chat" /\ result'.status = "rejected"
    /\ result' # result

\* C23: a message that is empty, or that comes with an empty session id, is
\* refused before the state machine is invoked: no turn runs on it, and the
\* refusal leaves the registered sessions and the session state as they were.
C23_EmptyInputRejected ==
    /\ []RunningTurnHasMessage
    /\ [][MessageRefused => UNCHANGED <<sessions, ckpt, turn>>]_vars

\* No turn runs on the empty string.
EmptyStringNeverRuns ==
    (turn.pc # "idle" /\ turn.kind = "chat") => Len(turn.input[1]) > 0

\* A refused message changes nothing.
RefusalChangesNothing ==
    [][MessageRefused => UNCHANGED <<sessions, ckpt, turn>>]_vars

\* C24: a request the inbound HTTP API refuses for its input (an empty
\* message or session id, a direction that is no direction) is answered with
\* a status of the 4xx class and the message of the refusal, never with a
\* status of the 5xx class.
C24_ValidationErrorIsClientError ==
    (result.via = "http" /\ result.status = "rejected")
    => /\ result.code \in 400..499
       /\ result.detail \notin {Some(format_learner_error("ValueError")),
                                 Some(format_learner_error("Exception"))}

\* The one refusal that is answered as a client error: the direction.
DirectionRefusedAsClientError ==
    (result.kind = "navigate" /\ result.status = "rejected")
    => result.code = 400

\* A resume request has been answered for a session with no pending
\* suspension.
ResumeWithNothingPending ==
    /\ turn.pc = "idle" /\ turn'.pc = "idle"
    /\ ckpt.interrupt = "none"
    /\ result'.kind = "resume"
    /\ result' # result

\* C25: a resume request for a session with no pending suspension, one never
\* seen before included, is refused as a validation error and changes
\* nothing: the session state is as it was and the session id is not
\* registered.
C25_ResumeWithoutSuspensionRejected ==
    [][ResumeWithNothingPending
       => /\ result'.status = "rejected"
          /\ ckpt' = ckpt
          /\ sessions' = sessions]_vars

\* Whatever the graph does with such a resume, the session state is kept.
ResumeWithoutSuspensionKeepsState ==
    [][ResumeWithNothingPending => ckpt' = ckpt]_vars

\* A step during a turn that is not a step of that turn: the turn is
\* executing before and after, and has run no node in between.
StepBesideRunningTurn ==
    /\ turn.pc = "graph" /\ turn'.pc = "graph"
    /\ turn'.steps = turn.steps

\* C21: at most one turn executes on the session at a time: while a turn is
\* executing, no other turn runs the state machine on the session or
\* initialises it again, so nothing but the turn itself changes the
\* checkpointed state or the registered sessions.
C21_OneTurnAtATime ==
    [][StepBesideRunningTurn
       => /\ ckpt' = ckpt
          /\ sessions' = sessions]_vars

\* The last turn was cut off by the loss of the connection.
TurnWasLost == result.status = "lost"

\* C22: the message that follows a turn cut off by the loss of the
\* connection starts its turn from the state the completed nodes had
\* committed, with the message added, and not from an initialised state.
C22_LostTurnKeepsCommittedState ==
    [][(TurnWasLost /\ MessageTurnStarts)
       => ckpt'.values =
            [ckpt.values EXCEPT
               !.messages = Append(@, HumanMessage(turn'.input[1]))]]_vars

\* The loss of the connection itself rolls nothing back.
LossKeepsCheckpoint ==
    [][(turn.pc # "idle" /\ result'.status = "lost")
       => ckpt'.values = ckpt.values]_vars

----------------------------------------------------------------------------
(* Hints, retries and the advance through the curriculum *)

\* The step in which evaluate_answer returns having counted the attempt
\* numbered `attempts`, with an evaluation whose judgment line is `declared`.
EvaluationDeclares(declared, attempts) ==
    /\ turn.pc = "graph" /\ turn.node = "evaluate_answer"
    /\ Len(ckpt'.values.messages) = Len(ckpt.values.messages) + 1
    /\ ckpt'.values.messages[Len(ckpt'.values.messages)].type = "ai"
    /\ contains(ckpt'.values.messages[Len(ckpt'.values.messages)].content,
                declared)
    /\ ckpt.values.assessment_attempts = attempts - 1

\* C31: a first answer whose evaluation declares the judgment partial sets
\* current_stage to needs_hint, and the turn ends there so that the next
\* evaluation reads a new utterance of the learner.
C31_PartialAnswerAwaitsAnotherAttempt ==
    [][EvaluationDeclares("JUDGMENT: partial", 1)
       => /\ ckpt'.values.current_stage = "needs_hint"
          /\ turn'.pc = "return"]_vars

\* C32: a first answer whose evaluation declares the judgment incorrect sets
\* current_stage to needs_retry.
C32_FirstIncorrectAnswerRetries ==
    [][EvaluationDeclares("JUDGMENT: incorrect", 1)
       => ckpt'.values.current_stage = "needs_retry"]_vars

\* The teaching node is about to run after evaluate_answer has returned
\* with the stage evaluation_complete and topics left.
AdvancesToNextTopic ==
    /\ turn.pc = "graph"
    /\ ckpt.values.current_stage = "evaluation_complete"
    /\ ckpt.values.topics_remaining # <<>>

C35_AttemptsAtMostTwo ==
    ckpt.values.assessment_attempts <= 2

\* The step in which an invocation of evaluate_answer returns, after any
\* number of attempts whose generation call failed.
EvaluationReturns ==
    /\ turn.pc = "graph" /\ turn.node = "evaluate_answer"
    /\ turn'.steps = turn.steps + 1

\* C36: an invocation of evaluate_answer adds exactly 1 to
\* assessment_attempts and appends exactly one assistant turn, whether its
\* generation call succeeds at once or after failed attempts.
C36_RetryChangesNothing ==
    [][EvaluationReturns
       => /\ ckpt'.values.assessment_attempts
                = ckpt.values.assessment_attempts + 1
          /\ Len(ckpt'.values.messages) = Len(ckpt.values.messages) + 1
          /\ ckpt'.values.messages[Len(ckpt'.values.messages)].type = "ai"]_vars

\* The step in which the question_answering node returns.
QuestionAnswered ==
    /\ turn.pc = "graph" /\ turn.node = "question_answering"
    /\ turn'.steps = turn.steps + 1

TurnRunning == turn.pc = "graph"

\* C38: every turn terminates.  A turn that a message or a resume answer has
\* started runs fewer than MaxSteps nodes, and the graph then ends it or
\* suspends it for input: the post-node router does not go round for ever.
C38_TurnsTerminate ==
    /\ [](TurnRunning => (turn.node # "end" /\ turn.steps < MaxSteps))
    /\ (TurnRunning ~> (turn.pc = "return"))

\* A turn has run two nodes, the second after the post-node router sent it
\* on, and has come to its end.
C38_Witness ==
    /\ turn.pc = "return"
    /\ turn.steps = 2
    /\ turn.interrupt = "none"

\* Every evaluation given so far declares the judgment correct.
AllJudgedCorrect ==
    \A i \in 1..Len(ckpt.values.messages) :
        ckpt.values.messages[i].content \in EvaluationTexts
            => ckpt.values.messages[i].content \in PassingTexts

\* Every topic of the curriculum has been taught.
CurriculumTaught ==
    /\ ckpt.values.topics_remaining = <<>>
    /\ ckpt.values.topics_covered = curriculum

\* The learner has had as many answers evaluated as the curriculum has
\* topics.
AnswersEvaluated ==
    Cardinality({ i \in 1..Len(ckpt.values.messages) :
                    ckpt.values.messages[i].content \in EvaluationTexts })
        >= NumTopics

TopicsNeverAdvance ==
    /\ ckpt.values.topics_remaining \in {curriculum, Tail(curriculum)}
    /\ ckpt.values.current_topic \in {None, Some(curriculum[1])}
    /\ ckpt.values.assessments_passed = 0

\* C40: in every state of the session, if current_stage is anything but
\* introduction then user_name is a non-empty string and learning_goal is
\* set: nothing is taught, asked or evaluated before the introduction is
\* complete.
C40_IntroductionPrecedesLesson ==
    ckpt.values.current_stage # "introduction"
        => /\ ckpt.values.user_name # None
           /\ ckpt.values.user_name[1] # <<>>
           /\ ckpt.values.learning_goal # None

\* The lesson has gone as far as the review of a topic, for a learner who
\* gave a name and a goal.
C40_Witness ==
    /\ ckpt.values.current_stage = "needs_review"
    /\ ckpt.values.user_name = Some(<<"Alice">>)
    /\ ckpt.values.learning_goal = Some(<<"Alice">>)

====
